---- MODULE Spec2Model ----
(***************************************************************************)
(* A model of the WAVECAR reader of src/vaspwfc.py (class vaspwfc): the    *)
(* handle's header and band table, the shared stream position, and the     *)
(* operations whereRec, checkIndex, readBandCoeff, gvectors and wfc_r.     *)
(*                                                                         *)
(* Numbers.  The source is Python 2 (print statements), so "/" on integers *)
(* is floor division, modelled by \div.  The lattice is orthorhombic:      *)
(* Acell[i] is the kinetic energy of one reciprocal step along axis i,     *)
(* HSQDTM * (TPI / |a_i|)^2, in integer model units, and a k-vector is     *)
(* stored doubled (kvecs[k][i] = 2 * k_i), so that every comparison the    *)
(* code makes in floating point is an exact integer comparison here.       *)
(* A complex amplitude is a record [re, im, s2, nrm] standing for          *)
(* (re + i*im) * sqrt(2)^s2 / sqrt(nrm).                                   *)
(***************************************************************************)
EXTENDS Integers, Sequences, FiniteSets, TLC

\* Bounds of the model.
MaxKpts == 2
MaxBands == 2
MaxEncut == 2
MaxNplw == 2
MaxPad == 1

VARIABLES wavecar, lsoc, lgam, recl, nspin, rtag, WFPrec, nkpts, nbands,
          encut, Acell, ngrid, nplws, kvecs, bands, occs, pos, last, thr

hvars == <<lsoc, lgam, recl, nspin, rtag, WFPrec, nkpts, nbands,
           encut, Acell, ngrid, nplws, kvecs, bands, occs>>
\* the handle's attributes other than the minimum grid
hrest == <<lsoc, lgam, recl, nspin, rtag, WFPrec, nkpts, nbands,
           encut, Acell, nplws, kvecs, bands, occs>>
vars == <<wavecar, lsoc, lgam, recl, nspin, rtag, WFPrec, nkpts, nbands,
          encut, Acell, ngrid, nplws, kvecs, bands, occs, pos, last, thr>>

----------------------------------------------------------------------------
\* Small helpers.

Prod3(t) == t[1] * t[2] * t[3]

\* ceil(sqrt(e / u)) for integers e >= 0, u >= 1
CeilSqrt(e, u) == CHOOSE c \in 0..e : c * c * u >= e /\ \A d \in 0..(c - 1) : d * d * u < e

\* bytes of one np.float
FloatSize == 8

----------------------------------------------------------------------------
setWFPrecAlt(tag) ==
    IF tag = 45200 THEN [err |-> "", itemsize |-> 8]
    ELSE IF tag \in {45210, 53310} THEN [err |-> "", itemsize |-> 16]
    ELSE IF tag = 53300 THEN [err |-> "ValueError: VASP5 WAVECAR format, not implemented yet", itemsize |-> 0]
    ELSE [err |-> "ValueError: Invalid TAG values", itemsize |-> 0]

\* setWFPrec: the coefficient precision of a tag; the model keeps the item
\* size in bytes of the numpy type (complex64: 8, complex128: 16).
setWFPrec(tag) ==
    IF tag = 45200 THEN [err |-> "", itemsize |-> 8]
    ELSE IF tag = 45210 THEN [err |-> "", itemsize |-> 16]
    ELSE IF tag = 53300 THEN [err |-> "ValueError: VASP5 WAVECAR format, not implemented yet", itemsize |-> 0]
    ELSE IF tag = 53310 THEN [err |-> "ValueError: VASP5 WAVECAR format with double precision coefficients, not implemented yet", itemsize |-> 0]
    ELSE [err |-> "ValueError: Invalid TAG values", itemsize |-> 0]

\* Minimum FFT grid size of readWFHeader: 2 * ceil(sqrt(encut/RYTOEV) / (TPI/(Anorm/AUTOA))) + 1
MinGrid(cut, cell) == [i \in 1..3 |-> 2 * CeilSqrt(cut, cell[i]) + 1]

checkIndexAlt(ispin, ikpt, iband) ==
    IF ~(0 <= ispin /\ ispin <= nspin) THEN "AssertionError: Invalid spin index!"
    ELSE IF ~(1 <= ikpt /\ ikpt <= nkpts) THEN "AssertionError: Invalid kpoint index!"
    ELSE IF ~(1 <= iband /\ iband <= nbands + 1) THEN "AssertionError: Invalid band index!"
    ELSE ""

\* checkIndex: "" when the three asserts pass, the failing assert's message otherwise.
checkIndex(ispin, ikpt, iband) ==
    IF ~(1 <= ispin /\ ispin <= nspin) THEN "AssertionError: Invalid spin index!"
    ELSE IF ~(1 <= ikpt /\ ikpt <= nkpts) THEN "AssertionError: Invalid kpoint index!"
    ELSE IF ~(1 <= iband /\ iband <= nbands) THEN "AssertionError: Invalid band index!"
    ELSE ""

RecOfAlt(ispin, ikpt, iband, K, B) ==
    2 + (ispin - 1) * B * (K + 1) + (ikpt - 1) * (B + 1) + iband

\* The record arithmetic of whereRec, lines 413-415.
RecOf(ispin, ikpt, iband, K, B) ==
    2 + (ispin - 1) * K * (B + 1) + (ikpt - 1) * (B + 1) + iband

\* whereRec: the index check, then the record number.
whereRec(ispin, ikpt, iband) ==
    LET e == checkIndex(ispin, ikpt, iband)
    IN  IF e # "" THEN [err |-> e, rec |-> 0]
        ELSE [err |-> "", rec |-> RecOf(ispin, ikpt, iband, nkpts, nbands)]

----------------------------------------------------------------------------
\* The WAVECAR file.  Its header fields are drawn in Init; the rest of its
\* contents is a fixed function of the position, so that the values of
\* different records and of different items of a record differ.

\* numpy item size of the coefficients stored under a tag
ItemSize(tag) == setWFPrec(tag).itemsize

\* k-vector of k-point k, doubled: Gamma, then (1/2,0,0), (1/2,1/2,0), ...
FileKvec(k) == [i \in 1..3 |-> IF i < k THEN 1 ELSE 0]
FileBand(s, k, b) == 100 * s + 10 * k + b
FileOcc(s, k, b) == b % 2

\* item i (1-based) of a read of complex items starting at byte offset p; the
\* first coefficient of a record of a gamma-point file, the one of G = 0, is real
FileCoeff(p, i) ==
    LET item == i + (p % wavecar.recl) \div ItemSize(wavecar.rtag)
    IN  [re |-> p \div wavecar.recl,
         im |-> IF wavecar.gamma /\ item = 1 THEN 0 ELSE item,
         s2 |-> 0, nrm |-> 1]

Zero == [re |-> 0, im |-> 0, s2 |-> 0, nrm |-> 1]

----------------------------------------------------------------------------
\* gvectors, lines 194-250.

\* lines 204-209: the signed frequency of grid index i on an axis of n points
freq(n) == [i \in 0..(n - 1) |-> IF i < (n \div 2) + 1 THEN i ELSE i - n]

\* the inner comprehension loop (ii), for fixed jj and kk
CandRow(g, jj, kk) ==
    [ii \in 1..g[1] |-> <<freq(g[1])[ii - 1], freq(g[2])[jj], freq(g[3])[kk]>>]

RECURSIVE CandPlaneAlt(_, _, _)
CandPlaneAlt(g, jj, kk) ==
    IF jj >= g[2] THEN <<>> ELSE CandPlaneAlt(g, jj + 1, kk) \o CandRow(g, jj, kk)

\* the middle comprehension loop (jj), for fixed kk
RECURSIVE CandPlane(_, _, _)
CandPlane(g, jj, kk) ==
    IF jj >= g[2] THEN <<>> ELSE CandRow(g, jj, kk) \o CandPlane(g, jj + 1, kk)

\* the outer comprehension loop (kk)
RECURSIVE CandAll(_, _)
CandAll(g, kk) ==
    IF kk >= g[3] THEN <<>> ELSE CandPlane(g, 0, kk) \o CandAll(g, kk + 1)

\* lines 220-224: the filter of the gamma comprehension
GammaHalfOpen(t) ==
    (t[3] > 0) \/ (t[3] = 0 /\ t[2] > 0) \/ (t[3] = 0 /\ t[2] = 0 /\ t[1] > 0)

GammaHalf(t) ==
    (t[3] > 0) \/ (t[3] = 0 /\ t[2] > 0) \/ (t[3] = 0 /\ t[2] = 0 /\ t[1] >= 0)

\* the full list in either mode
kgridAlt(g, gam) == CandAll(g, 0)

\* lines 213-229
kgrid(g, gam) == IF gam THEN SelectSeq(CandAll(g, 0), GammaHalf) ELSE CandAll(g, 0)

\* lines 233-235, times 4 / HSQDTM-unit: |2 (G + k)|^2 in the cell's metric
KENERGY4(t, kv, cell) ==
    cell[1] * (2 * t[1] + kv[1]) * (2 * t[1] + kv[1])
  + cell[2] * (2 * t[2] + kv[2]) * (2 * t[2] + kv[2])
  + cell[3] * (2 * t[3] + kv[3]) * (2 * t[3] + kv[3])

\* line 237
BelowCutoff(t, kv, cell, cut) == KENERGY4(t, kv, cell) < 4 * cut

GvecOf(g, cut, cell, kv, gam) ==
    LET Keep(t) == BelowCutoff(t, kv, cell, cut)
    IN  SelectSeq(kgrid(g, gam), Keep)

StoredCountAlt(n, soc) == n

\* lines 241-248: the stored count the retained count is compared with
StoredCount(n, soc) == IF soc THEN n \div 2 ELSE n

gvectors(ikpt, force_Gamma, check_consistency) ==
    IF ~(1 <= ikpt /\ ikpt <= nkpts)
    THEN [err |-> "AssertionError: Invalid kpoint index!", val |-> <<>>]
    ELSE LET gam == IF force_Gamma THEN TRUE ELSE lgam
             Gvec == GvecOf(ngrid, encut, Acell, kvecs[ikpt], gam)
         IN  IF check_consistency /\ Len(Gvec) # StoredCount(nplws[ikpt], lsoc)
             THEN [err |-> IF lsoc
                           THEN "AssertionError: No. of planewaves not consistent for an SOC WAVECAR!"
                           ELSE "AssertionError: No. of planewaves not consistent!",
                   val |-> <<>>]
             ELSE [err |-> "", val |-> Gvec]

----------------------------------------------------------------------------
\* readBandCoeff, lines 388-404, run on a stream at position p.

RECURSIVE SumSq(_, _)
SumSq(cg, i) ==
    IF i > Len(cg) THEN 0 ELSE cg[i].re * cg[i].re + cg[i].im * cg[i].im + SumSq(cg, i + 1)

\* cg /= np.linalg.norm(cg)
Normalize(cg) == LET n2 == SumSq(cg, 1) IN [i \in 1..Len(cg) |-> [cg[i] EXCEPT !.nrm = @ * n2]]

\* a read that starts one item late
fromfileAlt(p, count) == [i \in 1..count |-> FileCoeff(p, i + 1)]

\* np.fromfile(self._wfc, dtype, count) at stream position p
fromfile(p, count) == [i \in 1..count |-> FileCoeff(p, i)]

\* a read without the seek of line 396: from wherever the stream stands
readBandCoeffAlt(p, ispin, ikpt, iband, norm) ==
    LET e == checkIndex(ispin, ikpt, iband)
    IN  IF e # "" THEN [err |-> e, cg |-> <<>>, io |-> <<>>, pos |-> p]
        ELSE LET nplw == nplws[ikpt]
                 dump == fromfile(p, nplw)
             IN  [err |-> "",
                  cg |-> IF norm THEN Normalize(dump) ELSE dump,
                  io |-> << <<"read", nplw>> >>,
                  pos |-> p + nplw * WFPrec]

readBandCoeff(p, ispin, ikpt, iband, norm) ==
    LET e == checkIndex(ispin, ikpt, iband)
    IN  IF e # "" THEN [err |-> e, cg |-> <<>>, io |-> <<>>, pos |-> p]
        ELSE LET rec == whereRec(ispin, ikpt, iband).rec
                 off == rec * recl
                 nplw == nplws[ikpt]
                 dump == fromfile(off, nplw)
             IN  [err |-> "",
                  cg |-> IF norm THEN Normalize(dump) ELSE dump,
                  io |-> << <<"seek", off>>, <<"read", nplw>> >>,
                  pos |-> off + nplw * WFPrec]

----------------------------------------------------------------------------
\* wfc_r, lines 291-386.  An optional argument is a record [given, val].

None == [given |-> FALSE, val |-> <<>>]
NoScale == [given |-> FALSE, val |-> 0]
Some(v) == [given |-> TRUE, val |-> v]

\* the index set of an array of shape sh
Cells3(sh) == (0..(sh[1] - 1)) \X (0..(sh[2] - 1)) \X (0..(sh[3] - 1))

\* np.zeros(shape, dtype=np.complex128)
zeros(sh) == [c \in Cells3(sh) |-> Zero]

\* lines 340-343: the shape of phi_k
PhiShape(ng, gam) == IF gam THEN <<ng[1], ng[2], (ng[3] \div 2) + 1>> ELSE ng

\* line 345: gvec %= ngrid[np.newaxis,:]
WrapG(gvec, ng) == [i \in 1..Len(gvec) |-> [a \in 1..3 |-> gvec[i][a] % ng[a]]]

InShape(c, sh) == \A a \in 1..3 : 0 <= c[a] /\ c[a] < sh[a]

\* numpy's rule for assigning m values to n indexed positions
Broadcasts(m, n) == m = n \/ m = 1

\* the writes of phi_k[gvec[:,0], gvec[:,1], gvec[:,2]] = vals, in index order
RECURSIVE PlaceFrom(_, _, _, _)
PlaceFrom(phi, gv, vals, i) ==
    IF i > Len(gv) THEN phi
    ELSE PlaceFrom([phi EXCEPT ![gv[i]] = IF Len(vals) = 1 THEN vals[1] ELSE vals[i]],
                   gv, vals, i + 1)

\* phi_k[gvec[:,0], gvec[:,1], gvec[:,2]] = vals on an array of shape sh
Place(phi, sh, gv, vals) ==
    IF ~Broadcasts(Len(vals), Len(gv))
    THEN [err |-> "ValueError: shape mismatch: value array could not be broadcast to indexing result",
          phi |-> phi]
    ELSE IF \E i \in 1..Len(gv) : ~InShape(gv[i], sh)
    THEN [err |-> "IndexError: index is out of bounds", phi |-> phi]
    ELSE [err |-> "", phi |-> PlaceFrom(phi, gv, vals, 1)]

conjugate(z) == [z EXCEPT !.im = 0 - @]

\* Python's negative index: a[-i] on an axis of n entries
NegIdx(i, n) == IF i = 0 THEN 0 ELSE n - i

\* line 376: fx of the loop position (ii, jj)
FillFx(ii, jj, ng) == IF ii < (ng[1] \div 2) + 1 THEN ii ELSE ii - ng[1]

\* line 377: fy of the loop position (ii, jj); the line reads ii, not jj
FillFy(ii, jj, ng) == IF ii < (ng[2] \div 2) + 1 THEN ii ELSE ii - ng[2]

\* lines 374-380: the loop over (ii, jj), from the flat position t = ii * ng[2] + jj on
RECURSIVE GammaFill(_, _, _)
GammaFill(phi, ng, t) ==
    IF t >= ng[1] * ng[2] THEN phi
    ELSE LET ii == t \div ng[2]
             jj == t % ng[2]
             fx == FillFx(ii, jj, ng)
             fy == FillFy(ii, jj, ng)
         IN  IF (fy > 0) \/ (fy = 0 /\ fx >= 0)
             THEN GammaFill(phi, ng, t + 1)
             ELSE GammaFill([phi EXCEPT ![<<ii, jj, 0>>] =
                                 conjugate(phi[<<NegIdx(ii, ng[1]), NegIdx(jj, ng[2]), 0>>])],
                            ng, t + 1)

\* the division alone, without the second line
GammaScaleAlt(phi) == [c \in DOMAIN phi |-> [phi[c] EXCEPT !.s2 = @ - 1]]

\* lines 381-382: phi_k /= sqrt(2.); phi_k[0,0,0] *= sqrt(2.)
GammaScale(phi) ==
    LET d == [c \in DOMAIN phi |-> [phi[c] EXCEPT !.s2 = @ - 1]]
    IN  [d EXCEPT ![<<0, 0, 0>>] = [@ EXCEPT !.s2 = @ + 1]]

NormFacAlt(rescale, ng) ==
    IF rescale.given THEN [sqrtOf |-> 0, val |-> rescale.val]
    ELSE [sqrtOf |-> ng[1] * ng[2], val |-> 0]

\* line 335
NormFac(rescale, ng) ==
    IF rescale.given THEN [sqrtOf |-> 0, val |-> rescale.val]
    ELSE [sqrtOf |-> Prod3(ng), val |-> 0]

\* the cells of a reciprocal grid that hold a non-zero amplitude, with their amplitudes
NonZero(phi) ==
    [c \in {d \in DOMAIN phi : phi[d].re # 0 \/ phi[d].im # 0} |-> phi[c]]

\* a returned field: the inverse transform named fft, over s points, of the
\* reciprocal grid phi (kept by its non-zero cells), times normFac
Field(fft, phi, ng, nf) == [fft |-> fft, phi_k |-> NonZero(phi), s |-> ng, normFac |-> nf]

\* "if Cg:" of line 349 on None or a numpy array: "T", "F", or the error numpy raises
TruthOf(Cg) ==
    IF ~Cg.given THEN "F"
    ELSE IF Len(Cg.val) = 0 THEN "F"
    ELSE IF Len(Cg.val) = 1
         THEN (IF Cg.val[1].re = 0 /\ Cg.val[1].im = 0 THEN "F" ELSE "T")
    ELSE "ValueError: The truth value of an array with more than one element is ambiguous"

SubSeqFrom(sq, a) == SubSeq(sq, a, Len(sq))

\* line 359: phi_k[:,:,:] = 0.0j
ResetGrid(phi) == [c \in DOMAIN phi |-> Zero]

\* line 356: dump[:nplw]
SpinorUp(dump, nplw) == SubSeq(dump, 1, nplw)

\* line 360: dump[nplw:]
SpinorDownAlt(dump, nplw) == SubSeq(dump, 1, nplw)

SpinorDown(dump, nplw) == SubSeqFrom(dump, nplw + 1)

\* lines 347-364, the spin-orbit branch, from the wrapped G-vectors on
wfc_r_soc(p, ispin, ikpt, iband, gv, Cg, ng, nf, norm) ==
    LET truth == TruthOf(Cg)
        rd == IF truth = "F" THEN readBandCoeff(p, ispin, ikpt, iband, norm)
              ELSE [err |-> "", cg |-> Cg.val, io |-> <<>>, pos |-> p]
        dump == rd.cg
        nplw == Len(dump) \div 2
        up == Place(zeros(ng), ng, gv, SpinorUp(dump, nplw))
        down == Place(ResetGrid(up.phi), ng, gv, SpinorDown(dump, nplw))
    IN  IF truth \notin {"T", "F"} THEN [err |-> truth, ret |-> <<>>, io |-> <<>>, pos |-> p]
        ELSE IF up.err # "" THEN [err |-> up.err, ret |-> <<>>, io |-> rd.io, pos |-> rd.pos]
        ELSE IF down.err # "" THEN [err |-> down.err, ret |-> <<>>, io |-> rd.io, pos |-> rd.pos]
        ELSE [err |-> "",
              ret |-> <<Field("ifftn", up.phi, ng, nf), Field("ifftn", down.phi, ng, nf)>>,
              io |-> rd.io, pos |-> rd.pos]

\* lines 366-386, the other branch, from the wrapped G-vectors on
wfc_r_scalar(p, ispin, ikpt, iband, gv, Cg, ng, nf, norm) ==
    LET sh == PhiShape(ng, lgam)
        rd == IF Cg.given THEN [err |-> "", cg |-> Cg.val, io |-> <<>>, pos |-> p]
              ELSE readBandCoeff(p, ispin, ikpt, iband, norm)
        pl == Place(zeros(sh), sh, gv, rd.cg)
    IN  IF pl.err # "" THEN [err |-> pl.err, ret |-> <<>>, io |-> rd.io, pos |-> rd.pos]
        ELSE IF lgam
        THEN [err |-> "",
              ret |-> <<Field("irfftn", GammaScale(GammaFill(pl.phi, ng, 0)), ng, nf)>>,
              io |-> rd.io, pos |-> rd.pos]
        ELSE [err |-> "", ret |-> <<Field("ifftn", pl.phi, ng, nf)>>,
              io |-> rd.io, pos |-> rd.pos]

CheckGridAlt(grid) ==
    IF grid.given /\ ~(\E a \in 1..3 : grid.val[a] >= ngrid[a])
    THEN "AssertionError: Minium FT grid size"
    ELSE ""

\* lines 318-325: "" when the target grid passes, the failing assert's message otherwise
CheckGrid(grid) ==
    IF grid.given /\ ~(\A a \in 1..3 : grid.val[a] >= ngrid[a])
    THEN "AssertionError: Minium FT grid size"
    ELSE ""

\* wfc_r on a stream at position p; gvecOut is the caller's G-vector array after the call
wfc_r(p, ispin, ikpt, iband, gvec, Cg, grid, rescale, norm) ==
    LET e1 == checkIndex(ispin, ikpt, iband)
        e2 == CheckGrid(grid)
        ng == IF grid.given THEN grid.val ELSE ngrid
        nf == NormFac(rescale, ng)
        gr == IF gvec.given THEN [err |-> "", val |-> gvec.val] ELSE gvectors(ikpt, FALSE, TRUE)
        gv == WrapG(gr.val, ng)
        out == IF gvec.given THEN Some(gv) ELSE None
        r == IF lsoc THEN wfc_r_soc(p, ispin, ikpt, iband, gv, Cg, ng, nf, norm)
             ELSE wfc_r_scalar(p, ispin, ikpt, iband, gv, Cg, ng, nf, norm)
    IN  IF e1 # "" THEN [err |-> e1, ret |-> <<>>, io |-> <<>>, pos |-> p, gvecOut |-> gvec]
        ELSE IF e2 # "" THEN [err |-> e2, ret |-> <<>>, io |-> <<>>, pos |-> p, gvecOut |-> gvec]
        ELSE IF gr.err # ""
        THEN [err |-> gr.err, ret |-> <<>>, io |-> <<>>, pos |-> p, gvecOut |-> gvec]
        ELSE [err |-> r.err, ret |-> r.ret, io |-> r.io, pos |-> r.pos, gvecOut |-> out]

----------------------------------------------------------------------------
\* The state after vaspwfc(fnm, lsorbit, lgamma): readWFHeader, then readWFBand.

Cells == {<<1, 2, 4>>, <<2, 1, 1>>}
Tags == {45200, 45210}

Max(a, b) == IF a >= b THEN a ELSE b

\* the plane-wave count a consistent file stores for k-point k
ConsistentCount(cut, cell, k, soc, gam) ==
    LET n == Len(GvecOf(MinGrid(cut, cell), cut, cell, FileKvec(k), gam))
    IN  IF soc THEN 2 * n ELSE n

\* the record length of a file: the longest of its records
RecLen(tag, nb, counts) ==
    LET m == CHOOSE c \in {counts[k] : k \in DOMAIN counts} :
                 \A k \in DOMAIN counts : counts[k] <= c
    IN  Max(Max(FloatSize * 12, FloatSize * (4 + 3 * nb)), ItemSize(tag) * m)

\* a call that returned no value
Nothing == [none |-> TRUE]

\* no call in progress, no result pending
NoCall == [op |-> "none", args |-> Nothing, err |-> "", ret |-> Nothing, io |-> <<>>]

\* the stream position readWFBand leaves: the end of the last band table read
PosAfterReadWFBand(f) ==
    (RecOf(f.nspin, f.nkpts, 1, f.nkpts, f.nbands) - 1) * f.recl + FloatSize * (4 + 3 * f.nbands)

InitHandle(f, soc, gam) ==
    /\ wavecar = f
    /\ lsoc = soc
    /\ lgam = gam
    /\ recl = f.recl
    /\ nspin = f.nspin
    /\ rtag = f.rtag
    /\ WFPrec = setWFPrec(f.rtag).itemsize
    /\ nkpts = f.nkpts
    /\ nbands = f.nbands
    /\ encut = f.encut
    /\ Acell = f.cell
    /\ ngrid = MinGrid(f.encut, f.cell)
    /\ nplws = f.nplw
    /\ kvecs = [k \in 1..f.nkpts |-> FileKvec(k)]
    /\ bands = [s \in 1..f.nspin |-> [k \in 1..f.nkpts |-> [b \in 1..f.nbands |-> FileBand(s, k, b)]]]
    /\ occs = [s \in 1..f.nspin |-> [k \in 1..f.nkpts |-> [b \in 1..f.nbands |-> FileOcc(s, k, b)]]]
    /\ pos = PosAfterReadWFBand(f)
    /\ last = NoCall

\* A file of nk k-points whose stored plane-wave counts are the consistent
\* ones (stored = 0) or the number stored.
File(soc, gam, ns, nk, nb, tag, cut, cell, stored) ==
    LET counts == [k \in 1..nk |->
                     IF stored = 0 THEN ConsistentCount(cut, cell, k, soc, gam) ELSE stored]
    IN  [recl |-> RecLen(tag, nb, counts), nspin |-> ns, rtag |-> tag, nkpts |-> nk,
         nbands |-> nb, encut |-> cut, cell |-> cell, nplw |-> counts, gamma |-> gam]

\* lines 91 and 104: the two asserts of the constructor
Constructible(soc, gam, ns) == ~(soc /\ gam) /\ (soc => ns = 1)

\* Full-mode files of every layout (spins, k-points, bands, precision) at the
\* lowest cutoff.
InitLayout ==
    \E ns \in {1, 2}, nk \in 1..MaxKpts, nb \in 1..MaxBands, tag \in Tags :
        /\ Constructible(FALSE, FALSE, ns)
        /\ InitHandle(File(FALSE, FALSE, ns, nk, nb, tag, 1, <<1, 2, 4>>, 0), FALSE, FALSE)

\* Files of every storage mode, cutoff, cell and stored count, of one spin and one band.
InitPhysics ==
    \E soc \in BOOLEAN, gam \in BOOLEAN, cut \in 1..MaxEncut, cell \in Cells,
       stored \in 0..MaxNplw :
        /\ Constructible(soc, gam, 1)
        /\ InitHandle(File(soc, gam, 1, MaxKpts, 1, 45210, cut, cell, stored), soc, gam)

\* no caller threads: the calls come from one caller, one at a time
NoThreads == [mode |-> "none", lock |-> 0, th |-> <<>>]

Init == (InitLayout \/ InitPhysics) /\ thr = NoThreads

----------------------------------------------------------------------------
\* The constructor as an operation: vaspwfc(fnm, lsorbit, lgamma) on a file f,
\* lines 82-104, with readWFHeader (112-144) and readWFBand (164-192).

\* the middle value of a band's triple in the band table, which the reader skips
FileUnused(s, k, b) == 1000 + FileBand(s, k, b)

RECURSIVE BandTriples(_, _, _, _)
BandTriples(s, k, b, nb) ==
    IF b > nb THEN <<>>
    ELSE <<FileBand(s, k, b), FileUnused(s, k, b), FileOcc(s, k, b)>> \o BandTriples(s, k, b + 1, nb)

\* the floats of the band table of spin s and k-point k in file f
BandTable(f, s, k) == <<f.nplw[k]>> \o FileKvec(k) \o BandTriples(s, k, 1, f.nbands)

\* the floats of the record that starts at byte offset p of file f: the two
\* header records, then per spin and k-point a band table followed by one
\* coefficient record per band (whose bytes are no floats of the format)
FileRecord(f, p) ==
    LET rec == p \div f.recl
        t == rec - 2
        per == f.nbands + 1
        s == (t \div (f.nkpts * per)) + 1
        k == ((t % (f.nkpts * per)) \div per) + 1
    IN  IF rec = 0 THEN <<f.recl, f.nspin, f.rtag>>
        ELSE IF rec = 1
        THEN <<f.nkpts, f.nbands, f.encut, f.cell[1], 0, 0, 0, f.cell[2], 0, 0, 0, f.cell[3]>>
        ELSE IF t % per = 0 /\ s <= f.nspin THEN BandTable(f, s, k)
        ELSE [i \in 1..(f.recl \div FloatSize) |-> 0 - rec]

\* np.fromfile(self._wfc, dtype=np.float, count=count) at byte offset p
FileFloats(f, p, count) ==
    LET all == FileRecord(f, p)
    IN  SubSeq(all, 1, IF count <= Len(all) THEN count ELSE Len(all))

\* the attributes of a handle whose header beyond the first record was not read
NoHeader(d1) ==
    [err |-> "", recl |-> d1[1], nspin |-> d1[2], rtag |-> d1[3], WFPrec |-> 0,
     nkpts |-> 0, nbands |-> 0, encut |-> 0, Acell |-> <<0, 0, 0>>, ngrid |-> <<0, 0, 0>>,
     io |-> <<>>]

\* readWFHeader, lines 112-144
readWFHeader(f) ==
    LET d1 == FileFloats(f, 0, 3)
        prec == setWFPrec(d1[3])
        d2 == FileFloats(f, d1[1], 12)
        cell == <<d2[4], d2[8], d2[12]>>
    IN  IF prec.err # ""
        THEN [NoHeader(d1) EXCEPT !.err = prec.err, !.io = << <<"seek", 0>>, <<"read", 3>> >>]
        ELSE [err |-> "", recl |-> d1[1], nspin |-> d1[2], rtag |-> d1[3],
              WFPrec |-> prec.itemsize, nkpts |-> d2[1], nbands |-> d2[2], encut |-> d2[3],
              Acell |-> cell, ngrid |-> MinGrid(d2[3], cell),
              io |-> << <<"seek", 0>>, <<"read", 3>>, <<"seek", d1[1]>>, <<"read", 12>> >>]

\* line 183: dump[4:].reshape((-1, 3))[:, 0]
Energy(dump, b) == dump[4 + 3 * (b - 1) + 1]

OccupationAlt(dump, b) == dump[4 + 3 * (b - 1) + 2]

\* line 184: dump[4:].reshape((-1, 3))[:, 2]
Occupation(dump, b) == dump[4 + 3 * (b - 1) + 3]

\* lines 176-177: the byte offset readWFBand seeks to for spin s and k-point k
BandTableOffset(h, s, k) == (RecOf(s, k, 1, h.nkpts, h.nbands) - 1) * h.recl

\* the attributes of a handle whose band tables were not read
NoBands == [nplws |-> <<>>, kvecs |-> <<>>, bands |-> <<>>, occs |-> <<>>, io |-> <<>>, pos |-> 0]

\* readWFBand, lines 164-192, on a handle with header h
readWFBand(f, h) ==
    LET dump(s, k) == FileFloats(f, BandTableOffset(h, s, k), 4 + 3 * h.nbands)
    IN  [nplws |-> [k \in 1..h.nkpts |-> dump(1, k)[1]],
         kvecs |-> [k \in 1..h.nkpts |-> SubSeq(dump(1, k), 2, 4)],
         bands |-> [s \in 1..h.nspin |-> [k \in 1..h.nkpts |->
                        [b \in 1..h.nbands |-> Energy(dump(s, k), b)]]],
         occs |-> [s \in 1..h.nspin |-> [k \in 1..h.nkpts |->
                        [b \in 1..h.nbands |-> Occupation(dump(s, k), b)]]],
         io |-> [i \in 1..(2 * h.nspin * h.nkpts) |->
                    LET t == (i - 1) \div 2
                    IN  IF i % 2 = 1
                        THEN <<"seek", BandTableOffset(h, (t \div h.nkpts) + 1, (t % h.nkpts) + 1)>>
                        ELSE <<"read", 4 + 3 * h.nbands>>],
         pos |-> BandTableOffset(h, h.nspin, h.nkpts) + FloatSize * (4 + 3 * h.nbands)]

\* vaspwfc.__init__, lines 82-104
vaspwfc(f, lsorbit, lgamma) ==
    IF lsorbit /\ lgamma
    THEN [err |-> "AssertionError: The two settings conflict!",
          hdr |-> NoHeader(<<0, 0, 0>>), bnd |-> NoBands, io |-> <<>>]
    ELSE LET h == readWFHeader(f)
             b == readWFBand(f, h)
         IN  IF h.err # ""
             THEN [err |-> h.err, hdr |-> h, bnd |-> [NoBands EXCEPT !.pos = FloatSize * 3],
                   io |-> h.io]
             ELSE [err |-> IF lsorbit /\ h.nspin # 1
                           THEN "AssertionError: NSPIN = 1 for noncollinear version WAVECAR!"
                           ELSE "",
                   hdr |-> h, bnd |-> b,
                   io |-> h.io \o b.io]

\* the tags of the files opened: the two supported, the two of the newer
\* format, and two unknown ones
OpenTags == {45200, 45210, 53300, 53310, 0, 45201}

\* no handle yet: a file on disk, nothing read
InitO ==
    /\ \E soc \in BOOLEAN, gam \in BOOLEAN, ns \in {1, 2}, nk \in 1..MaxKpts,
          nb \in 1..MaxBands, tag \in OpenTags, cut \in 1..MaxEncut, cell \in Cells :
            wavecar = File(soc, gam, ns, nk, nb, tag, cut, cell, 0)
    /\ lsoc = FALSE /\ lgam = FALSE
    /\ recl = 0 /\ nspin = 0 /\ rtag = 0 /\ WFPrec = 0 /\ nkpts = 0 /\ nbands = 0
    /\ encut = 0 /\ Acell = <<0, 0, 0>> /\ ngrid = <<0, 0, 0>>
    /\ nplws = <<>> /\ kvecs = <<>> /\ bands = <<>> /\ occs = <<>>
    /\ pos = 0
    /\ last = [op |-> "closed", args |-> Nothing, err |-> "", ret |-> Nothing, io |-> <<>>]
    /\ thr = NoThreads

Open ==
    /\ last.op = "closed"
    /\ \E lsorbit \in BOOLEAN, lgamma \in BOOLEAN :
         \E r \in {vaspwfc(wavecar, lsorbit, lgamma)} :
            /\ lsoc' = lsorbit /\ lgam' = lgamma
            /\ recl' = r.hdr.recl /\ nspin' = r.hdr.nspin /\ rtag' = r.hdr.rtag
            /\ WFPrec' = r.hdr.WFPrec /\ nkpts' = r.hdr.nkpts /\ nbands' = r.hdr.nbands
            /\ encut' = r.hdr.encut /\ Acell' = r.hdr.Acell /\ ngrid' = r.hdr.ngrid
            /\ nplws' = r.bnd.nplws /\ kvecs' = r.bnd.kvecs
            /\ bands' = r.bnd.bands /\ occs' = r.bnd.occs
            /\ pos' = r.bnd.pos
            /\ last' = [op |-> "__init__", args |-> [lsorbit |-> lsorbit, lgamma |-> lgamma],
                        err |-> r.err, ret |-> Nothing, io |-> r.io]
    /\ UNCHANGED <<wavecar, thr>>

NextO == Open

SpecO == InitO /\ [][NextO]_vars

----------------------------------------------------------------------------
\* The calls.  A call is made when no result is pending (the caller is
\* single-threaded); Resume is the caller taking the result.

Spins == 0..(nspin + 1)
Kpts == 0..(nkpts + 1)
Bands == 0..(nbands + 1)

Idle == last.op = "none"

CheckIndex ==
    /\ Idle
    /\ \E s \in Spins, k \in Kpts, b \in Bands :
         last' = [op |-> "checkIndex", args |-> [ispin |-> s, ikpt |-> k, iband |-> b],
                  err |-> checkIndex(s, k, b), ret |-> Nothing, io |-> <<>>]
    /\ UNCHANGED <<wavecar, hvars, pos, thr>>

WhereRec ==
    /\ Idle
    /\ \E s \in Spins, k \in Kpts, b \in Bands :
         LET r == whereRec(s, k, b)
         IN  last' = [op |-> "whereRec", args |-> [ispin |-> s, ikpt |-> k, iband |-> b],
                      err |-> r.err, ret |-> [rec |-> r.rec], io |-> <<>>]
    /\ UNCHANGED <<wavecar, hvars, pos, thr>>

ReadBandCoeff ==
    /\ Idle
    /\ \E s \in Spins, k \in Kpts, b \in Bands, norm \in BOOLEAN :
         LET r == readBandCoeff(pos, s, k, b, norm)
         IN  /\ last' = [op |-> "readBandCoeff",
                         args |-> [ispin |-> s, ikpt |-> k, iband |-> b, norm |-> norm],
                         err |-> r.err, ret |-> [cg |-> r.cg], io |-> r.io]
             /\ pos' = r.pos
    /\ UNCHANGED <<wavecar, hvars, thr>>

Gvectors ==
    /\ Idle
    /\ \E k \in Kpts, force \in BOOLEAN, check \in BOOLEAN :
         LET r == gvectors(k, force, check)
         IN  last' = [op |-> "gvectors",
                      args |-> [ikpt |-> k, force_Gamma |-> force, check_consistency |-> check],
                      err |-> r.err, ret |-> [Gvec |-> r.val], io |-> <<>>]
    /\ UNCHANGED <<wavecar, hvars, pos, thr>>

\* The arguments the caller passes to wfc_r.
\* G-vector overrides: the array gvectors returns for the k-point, or a short
\* array of its own.
OwnGvec(n) ==
    [i \in 1..n |-> IF i = 1 THEN <<0, 0, 0>>
                    ELSE IF i % 2 = 0 THEN <<0 - (i \div 2), 0, 0>>
                    ELSE <<0, 0, 0 - (i \div 2)>>]

GvecChoices(k) ==
    {None} \cup {Some(gvectors(k, FALSE, FALSE).val)} \cup {Some(OwnGvec(n)) : n \in {1, MaxNplw}}

\* Coefficient overrides: the array readBandCoeff returns for the state, or a
\* short array of its own.
OwnCg(n) == [i \in 1..n |-> [re |-> i, im |-> 1, s2 |-> 0, nrm |-> 1]]

\* the coefficient vector [1.0]
UnitCg == <<[re |-> 1, im |-> 0, s2 |-> 0, nrm |-> 1]>>

CgChoices(s, k, b) ==
    {None} \cup {Some(readBandCoeff(pos, s, k, b, nrm).cg) : nrm \in BOOLEAN}
           \cup {Some(OwnCg(n)) : n \in {0, 1, MaxNplw}} \cup {Some(UnitCg)}

Padded == Some([a \in 1..3 |-> ngrid[a] + MaxPad])

GridChoices ==
    {None} \cup {Some([a \in 1..3 |-> ngrid[a] + d[a]]) :
                    d \in {0 - 1, 0, MaxPad} \X {0 - 1, 0, MaxPad} \X {0 - 1, 0, MaxPad}}

WfcArgs(s, k, b, gvec, Cg, grid, rescale, norm) ==
    [ispin |-> s, ikpt |-> k, iband |-> b, gvec |-> gvec, Cg |-> Cg, ngrid |-> grid,
     rescale |-> rescale, norm |-> norm]

ValidIdx == {t \in Spins \X Kpts \X Bands : checkIndex(t[1], t[2], t[3]) = ""}

\* a call that keeps the grid it was asked for in the handle
SelfGridAlt(a) == IF a.ngrid.given THEN a.ngrid.val ELSE ngrid

\* self._ngrid after wfc_r: lines 318-321 bind the local name ngrid to a copy
\* or to a new array, and no later line assigns to it or to self._ngrid
SelfGrid(a) == ngrid

Wfc_rCall(a) ==
    \E r \in {wfc_r(pos, a.ispin, a.ikpt, a.iband, a.gvec, a.Cg, a.ngrid, a.rescale, a.norm)} :
        /\ last' = [op |-> "wfc_r", args |-> a, err |-> r.err,
                    ret |-> [fields |-> r.ret, gvecOut |-> r.gvecOut], io |-> r.io]
        /\ pos' = r.pos
        /\ ngrid' = SelfGrid(a)

\* The calls of wfc_r the caller makes: any indices with the default
\* arguments; for valid indices, any target grid without overrides, any
\* overrides on the minimum and on the padded grid, and an explicit rescale.
Wfc_r ==
    /\ Idle
    /\ \/ \E t \in Spins \X Kpts \X Bands :
            Wfc_rCall(WfcArgs(t[1], t[2], t[3], None, None, None, NoScale, TRUE))
       \/ \E t \in ValidIdx, g \in GridChoices :
            Wfc_rCall(WfcArgs(t[1], t[2], t[3], None, None, g, NoScale, TRUE))
       \/ \E t \in ValidIdx, g \in {None, Padded} :
            \E gv \in GvecChoices(t[2]), cg \in CgChoices(t[1], t[2], t[3]) :
                Wfc_rCall(WfcArgs(t[1], t[2], t[3], gv, cg, g, NoScale, TRUE))
       \/ \E t \in ValidIdx, r \in {NoScale, Some(1)}, n \in BOOLEAN :
            Wfc_rCall(WfcArgs(t[1], t[2], t[3], None, None, None, r, n))
    /\ UNCHANGED <<wavecar, hrest, thr>>

Resume ==
    /\ ~Idle
    /\ last' = NoCall
    /\ UNCHANGED <<wavecar, hvars, pos, thr>>

Next == CheckIndex \/ WhereRec \/ ReadBandCoeff \/ Gvectors \/ Wfc_r \/ Resume

Spec == Init /\ [][Next]_vars

----------------------------------------------------------------------------
\* Two caller threads reading band coefficients.  readBandCoeff (lines
\* 388-404) positions the stream (line 396) and then reads from wherever the
\* stream stands (line 399): two steps on the handle's one stream position.
\* The callers share the handle without a lock ("shared"), share it and hold a
\* lock over the seek and the read ("locked"), or have a handle each ("own").

Threads == {1, 2}
Modes == {"shared", "locked", "own"}

NoArgs == [ispin |-> 0, ikpt |-> 0, iband |-> 0]

\* a thread before its call; p is the position of its own handle's stream
ThreadStart(p) == [pc |-> "idle", args |-> NoArgs, pos |-> p, cg |-> <<>>]

InitT ==
    /\ InitLayout
    /\ \E m \in Modes :
           thr = [mode |-> m, lock |-> 0, th |-> [t \in Threads |-> ThreadStart(pos)]]

\* the position of the stream thread t reads from
StreamPos(t) == IF thr.mode = "own" THEN thr.th[t].pos ELSE pos

\* line 394: the call starts with checkIndex
TCall(t) ==
    /\ thr.th[t].pc = "idle"
    /\ \E s \in Spins, k \in Kpts, b \in Bands :
           thr' = [thr EXCEPT !.th[t].args = [ispin |-> s, ikpt |-> k, iband |-> b],
                              !.th[t].pc = IF checkIndex(s, k, b) # "" THEN "raised"
                                           ELSE IF thr.mode = "locked" THEN "acquire"
                                           ELSE "seek"]
    /\ UNCHANGED <<wavecar, hvars, pos, last>>

\* the caller's lock, taken before the seek
TAcquire(t) ==
    /\ thr.th[t].pc = "acquire"
    /\ thr.lock = 0
    /\ thr' = [thr EXCEPT !.lock = t, !.th[t].pc = "seek"]
    /\ UNCHANGED <<wavecar, hvars, pos, last>>

\* lines 395-396: rec = whereRec(...); self._wfc.seek(rec * self._recl)
TSeek(t) ==
    /\ thr.th[t].pc = "seek"
    /\ LET a == thr.th[t].args
           off == whereRec(a.ispin, a.ikpt, a.iband).rec * recl
       IN  IF thr.mode = "own"
           THEN /\ thr' = [thr EXCEPT !.th[t].pos = off, !.th[t].pc = "read"]
                /\ pos' = pos
           ELSE /\ thr' = [thr EXCEPT !.th[t].pc = "read"]
                /\ pos' = off
    /\ UNCHANGED <<wavecar, hvars, last>>

\* lines 398-399: nplw = self._nplws[ikpt - 1]; dump = np.fromfile(self._wfc, ...)
TRead(t) ==
    /\ thr.th[t].pc = "read"
    /\ LET nplw == nplws[thr.th[t].args.ikpt]
           after == StreamPos(t) + nplw * WFPrec
           then == IF thr.mode = "locked" THEN "release" ELSE "done"
       IN  IF thr.mode = "own"
           THEN /\ thr' = [thr EXCEPT !.th[t].cg = fromfile(StreamPos(t), nplw),
                                      !.th[t].pos = after, !.th[t].pc = then]
                /\ pos' = pos
           ELSE /\ thr' = [thr EXCEPT !.th[t].cg = fromfile(StreamPos(t), nplw),
                                      !.th[t].pc = then]
                /\ pos' = after
    /\ UNCHANGED <<wavecar, hvars, last>>

\* the caller's lock, given back after the read
TRelease(t) ==
    /\ thr.th[t].pc = "release"
    /\ thr' = [thr EXCEPT !.lock = 0, !.th[t].pc = "done"]
    /\ UNCHANGED <<wavecar, hvars, pos, last>>

NextT == \E t \in Threads : TCall(t) \/ TAcquire(t) \/ TSeek(t) \/ TRead(t) \/ TRelease(t)

SpecT == InitT /\ [][NextT]_vars
----------------------------------------------------------------------------
\* The G-vector generator on its own: handles of a wider range of cutoffs,
\* cells and k-points, on which only gvectors is called.

CellsG == {<<1, 1, 1>>, <<1, 2, 4>>, <<2, 1, 1>>, <<4, 2, 1>>}

InitG ==
    \E soc \in BOOLEAN, gam \in BOOLEAN, cut \in 1..(MaxEncut + 1), cell \in CellsG,
       stored \in 0..MaxNplw :
        /\ Constructible(soc, gam, 1)
        /\ InitHandle(File(soc, gam, 1, MaxKpts + 1, 1, 45200, cut, cell, stored), soc, gam)
        /\ thr = NoThreads

NextG == Gvectors \/ Resume

SpecG == InitG /\ [][NextG]_vars

----------------------------------------------------------------------------
\* The inverse transforms of lines 357, 361, 383 and 386, by what they do to the
\* sum over the grid of |field|^2 (Parseval).  An amplitude a stands for
\* (a.re + i a.im) * sqrt(2)^a.s2 / sqrt(a.nrm), with a.s2 in {-1, 0}.

\* 2 * a.nrm * |a|^2
Sq2(a) == (a.re * a.re + a.im * a.im) * (IF a.s2 = 0 THEN 2 ELSE 1)

IsZero(a) == a.re = 0 /\ a.im = 0

\* the amplitude of cell c of a grid kept by its non-zero cells
At(phi, c) == IF c \in DOMAIN phi THEN phi[c] ELSE Zero

\* the sum of the values of a function with a finite domain
RECURSIVE SumFn(_)
SumFn(f) ==
    IF DOMAIN f = {} THEN 0
    ELSE LET c == CHOOSE x \in DOMAIN f : TRUE
         IN  f[c] + SumFn([d \in (DOMAIN f) \ {c} |-> f[d]])

\* 8 * nrm * |(a + conjugate(b)) / 2|^2: what a complex-to-real transform keeps
\* of the amplitudes a at (i, j) and b at (-i, -j) of a plane that is its own mirror
HermSq8(a, b) ==
    LET w == IF (IF IsZero(a) THEN b ELSE a).s2 = 0 THEN 2 ELSE 1
    IN  ((a.re + b.re) * (a.re + b.re) + (a.im - b.im) * (a.im - b.im)) * w

\* the last-axis indices whose plane is its own mirror in irfftn(phi_k, s = ng)
SelfMirror(ng) == {0} \cup (IF ng[3] % 2 = 0 THEN {ng[3] \div 2} ELSE {})

\* 8 * nrm * (sum of |amplitude|^2 over the full spectrum the transform inverts):
\* ifftn inverts the grid as it is; irfftn reads last-axis indices 0..ng[3]/2,
\* takes the mirror half as the conjugate, and of a self-mirror plane keeps the
\* Hermitian part
Spectrum8(f) ==
    IF f.fft = "ifftn"
    THEN SumFn([c \in DOMAIN f.phi_k |-> 4 * Sq2(f.phi_k[c])])
    ELSE LET used == {c \in DOMAIN f.phi_k : c[3] <= f.s[3] \div 2}
             pairs == {c \in used : c[3] \notin SelfMirror(f.s)}
             plane == (0..(f.s[1] - 1)) \X (0..(f.s[2] - 1)) \X SelfMirror(f.s)
         IN  SumFn([c \in pairs |-> 8 * Sq2(f.phi_k[c])])
           + SumFn([c \in plane |->
                      HermSq8(At(f.phi_k, c),
                              At(f.phi_k, <<NegIdx(c[1], f.s[1]), NegIdx(c[2], f.s[2]), c[3]>>))])

\* a spectrum with nothing outside the origin inverts to a uniform field
Uniform(f) == DOMAIN f.phi_k \subseteq {<<0, 0, 0>>}

\* the square of normFac
NormFacSq(nf) == IF nf.sqrtOf # 0 THEN nf.sqrtOf ELSE nf.val * nf.val

\* the nrm the amplitudes of a grid share
GridNrm(phi) == IF DOMAIN phi = {} THEN 1 ELSE phi[CHOOSE c \in DOMAIN phi : TRUE].nrm

\* the square of the value a uniform field has at every grid point, as the
\* fraction num / den: (normFac * Re(amplitude at the origin) / N)^2
UniformSq(f) ==
    LET a == At(f.phi_k, <<0, 0, 0>>)
    IN  [num |-> NormFacSq(f.normFac) * a.re * a.re * (IF a.s2 = 0 THEN 2 ELSE 1),
         den |-> 2 * a.nrm * Prod3(f.s) * Prod3(f.s)]

\* the sum over the grid points of |field|^2, as the fraction num / den:
\* normFac^2 / N times the sum of |amplitude|^2 over the spectrum
SumAbs2(f) ==
    [num |-> NormFacSq(f.normFac) * Spectrum8(f),
     den |-> 8 * GridNrm(f.phi_k) * Prod3(f.s)]

----------------------------------------------------------------------------
\* Properties.

IndexErrors == {"AssertionError: Invalid spin index!",
                "AssertionError: Invalid kpoint index!",
                "AssertionError: Invalid band index!"}
GridError == "AssertionError: Minium FT grid size"
CountErrors == {"AssertionError: No. of planewaves not consistent for an SOC WAVECAR!",
                "AssertionError: No. of planewaves not consistent!",
                "ValueError: shape mismatch: value array could not be broadcast to indexing result"}

InRange(a) ==
    /\ 1 <= a.ispin /\ a.ispin <= wavecar.nspin
    /\ 1 <= a.ikpt /\ a.ikpt <= wavecar.nkpts
    /\ 1 <= a.iband /\ a.iband <= wavecar.nbands

\* C1: for every valid (s, k, b), whereRec returns
\* 2 + (s-1)*K*(B+1) + (k-1)*(B+1) + b, and readBandCoeff first seeks the
\* stream to that record number times the record length and then reads.
C1_RecordOffset ==
    LET a == last.args
        rec == 2 + (a.ispin - 1) * wavecar.nkpts * (wavecar.nbands + 1)
                 + (a.ikpt - 1) * (wavecar.nbands + 1) + a.iband
    IN  /\ (last.op = "whereRec" /\ InRange(a)) => (last.err = "" /\ last.ret.rec = rec)
        /\ (last.op = "readBandCoeff" /\ InRange(a)) =>
              /\ last.err = ""
              /\ Len(last.io) = 2
              /\ last.io[1] = <<"seek", rec * wavecar.recl>>
              /\ last.io[2][1] = "read"

C1_Witness ==
    /\ last.op = "readBandCoeff" /\ last.err = ""
    /\ last.args.ispin = 2 /\ last.args.ikpt = 2
    /\ wavecar.nkpts # wavecar.nbands
    /\ Len(last.io) = 2

\* C2: readBandCoeff, whereRec and wfc_r fail with an index error, without a
\* result, exactly when an index is outside its range; gvectors fails with
\* the k-point index error exactly when its k-point index is outside [1, K].
C2_IndexCheck ==
    LET a == last.args
    IN  /\ last.op \in {"readBandCoeff", "whereRec", "wfc_r"} =>
              /\ ~InRange(a) => (last.err \in IndexErrors /\ last.io = <<>>)
              /\ InRange(a) => last.err \notin IndexErrors
              /\ last.op = "wfc_r" /\ ~InRange(a) => last.ret.fields = <<>>
              /\ last.op = "readBandCoeff" /\ ~InRange(a) => last.ret.cg = <<>>
        /\ last.op = "gvectors" =>
              /\ ~(1 <= a.ikpt /\ a.ikpt <= wavecar.nkpts) =>
                    (last.err = "AssertionError: Invalid kpoint index!" /\ last.ret.Gvec = <<>>)
              /\ (1 <= a.ikpt /\ a.ikpt <= wavecar.nkpts) => last.err \notin IndexErrors

C2_Witness ==
    /\ last.op = "wfc_r"
    /\ last.args.ispin = 0 /\ last.args.ikpt = 1 /\ last.args.iband = 1
    /\ last.err = "AssertionError: Invalid spin index!"

\* C3 (as claimed): a call of readBandCoeff, gvectors or wfc_r that fails an
\* index check, a target-grid check or a plane-wave/coefficient count check
\* has done no seek and no read on the stream.
C3_FailBeforeIO ==
    (last.op \in {"readBandCoeff", "gvectors", "wfc_r"}
        /\ last.err \in IndexErrors \cup {GridError} \cup CountErrors)
    => last.io = <<>>

\* C4: with an explicit target grid wfc_r passes the grid check when every
\* axis is at least the minimum grid, and fails with the grid-size error,
\* returning no field, when some axis is below it.
C4_GridCheck ==
    LET a == last.args
        min == MinGrid(wavecar.encut, wavecar.cell)
    IN  (last.op = "wfc_r" /\ InRange(a) /\ a.ngrid.given) =>
           /\ (\A x \in 1..3 : a.ngrid.val[x] >= min[x]) => last.err # GridError
           /\ (\E x \in 1..3 : a.ngrid.val[x] < min[x]) =>
                 (last.err = GridError /\ last.ret.fields = <<>> /\ last.io = <<>>)

C4_Witness ==
    /\ last.op = "wfc_r" /\ last.args.ngrid.given
    /\ last.args.ngrid.val = ngrid
    /\ last.err = "" /\ Len(last.ret.fields) = 1

\* The G-vectors and the coefficient vector a call of wfc_r places.
UsedGvec(a) == IF a.gvec.given THEN a.gvec.val ELSE gvectors(a.ikpt, FALSE, TRUE).val
UsedCoeff(a) ==
    IF a.Cg.given /\ (~lsoc \/ TruthOf(a.Cg) # "F") THEN a.Cg.val
    ELSE readBandCoeff(0, a.ispin, a.ikpt, a.iband, a.norm).cg
UsedGrid(a) == IF a.ngrid.given THEN a.ngrid.val ELSE ngrid

\* the enumeration position of a frequency triple on grid g: x fastest, z slowest
EnumPos(t, g) == (t[1] % g[1]) + g[1] * (t[2] % g[2]) + g[1] * g[2] * (t[3] % g[3])

Negate(t) == <<0 - t[1], 0 - t[2], 0 - t[3]>>
Range(sq) == {sq[i] : i \in 1..Len(sq)}
FullMode(a) == ~a.force_Gamma /\ ~lgam
ValidK(a) == 1 <= a.ikpt /\ a.ikpt <= wavecar.nkpts

\* C5: in full mode gvectors enumerates grid[0]*grid[1]*grid[2] candidates, z
\* outermost and x innermost, and returns exactly the candidates whose kinetic
\* energy is below the cutoff, in enumeration order.
C5_FullEnumeration ==
    (last.op = "gvectors" /\ last.err = "" /\ FullMode(last.args)) =>
        LET g == ngrid
            cand == kgrid(g, FALSE)
            G == last.ret.Gvec
            E4(t) == KENERGY4(t, FileKvec(last.args.ikpt), wavecar.cell)
        IN  /\ Len(cand) = g[1] * g[2] * g[3]
            /\ \A i \in 1..Len(cand) :
                  /\ EnumPos(cand[i], g) = i - 1
                  /\ \A x \in 1..3 : 2 * cand[i][x] <= g[x] /\ 2 * cand[i][x] > 0 - g[x]
            /\ Range(G) = {cand[i] : i \in {j \in 1..Len(cand) : E4(cand[j]) < 4 * wavecar.encut}}
            /\ \A i \in 1..(Len(G) - 1) : EnumPos(G[i], g) < EnumPos(G[i + 1], g)

C5_Witness ==
    /\ last.op = "gvectors" /\ last.err = "" /\ FullMode(last.args)
    /\ Len(last.ret.Gvec) >= 5
    /\ Len(last.ret.Gvec) < ngrid[1] * ngrid[2] * ngrid[3]
    /\ last.args.ikpt > 1

\* C6: at a zero k-vector the gamma-half set united with its negation is the
\* full-mode set of the same grid and cutoff, the origin occurs once in the
\* half set, and of every non-zero g of the full set exactly one of g and -g
\* is in the half set, so the half set has (|full| + 1) / 2 elements.
C6_GammaHalfUnion ==
    (/\ last.op = "gvectors" /\ last.err = "" /\ ~FullMode(last.args)
     /\ FileKvec(last.args.ikpt) = <<0, 0, 0>>) =>
        LET H == Range(last.ret.Gvec)
            F == Range(GvecOf(ngrid, encut, Acell, kvecs[last.args.ikpt], FALSE))
        IN  /\ H \cup {Negate(t) : t \in H} = F
            /\ Cardinality({i \in 1..Len(last.ret.Gvec) : last.ret.Gvec[i] = <<0, 0, 0>>}) = 1
            /\ \A t \in F \ {<<0, 0, 0>>} : (t \in H) # (Negate(t) \in H)
            /\ 2 * Len(last.ret.Gvec) = Cardinality(F) + 1

C6_Witness ==
    /\ last.op = "gvectors" /\ last.err = "" /\ ~FullMode(last.args)
    /\ FileKvec(last.args.ikpt) = <<0, 0, 0>>
    /\ Len(last.ret.Gvec) >= 4

WrapOf(t, g) == <<t[1] % g[1], t[2] % g[2], t[3] % g[3]>>

\* C8: under spin-orbit storage, with a coefficient vector of length 2N for N
\* G-vectors, wfc_r returns two fields; the first is built from a grid that
\* holds coefficient i at the wrapped position of G-vector i and zero
\* elsewhere, the second from a grid that holds coefficient N + i there and
\* zero elsewhere, and no first-half value is left in the second grid.
C8_SpinorSplit ==
    (last.op = "wfc_r" /\ lsoc /\ last.err = "") =>
        LET a == last.args
            gv == UsedGvec(a)
            N == Len(gv)
            dump == UsedCoeff(a)
            ng == UsedGrid(a)
            f == last.ret.fields
        IN  Len(dump) = 2 * N =>
              /\ Len(f) = 2
              /\ \A h \in 1..2 :
                    /\ f[h].fft = "ifftn" /\ f[h].s = ng
                    /\ DOMAIN f[h].phi_k = {WrapOf(gv[i], ng) : i \in 1..N}
                    /\ \A i \in 1..N : f[h].phi_k[WrapOf(gv[i], ng)] = dump[(h - 1) * N + i]
              /\ \A c \in DOMAIN f[2].phi_k : f[2].phi_k[c] \notin {dump[i] : i \in 1..N}

C8_Witness ==
    /\ last.op = "wfc_r" /\ lsoc /\ last.err = ""
    /\ Len(UsedGvec(last.args)) >= 3
    /\ Len(UsedCoeff(last.args)) = 2 * Len(UsedGvec(last.args))
    /\ last.args.ngrid.given

\* C9 (as claimed): wfc_r fails, returning no field, whenever the length of
\* the coefficient vector differs from the number of G-vectors placed (from
\* twice that number under spin-orbit storage), a vector of length 1 included.
C9_CountMismatchFails ==
    LET a == last.args
    IN  (/\ last.op = "wfc_r" /\ InRange(a) /\ CheckGrid(a.ngrid) = ""
         /\ (a.gvec.given \/ gvectors(a.ikpt, FALSE, TRUE).err = "")
         /\ Len(UsedCoeff(a)) # (IF lsoc THEN 2 ELSE 1) * Len(UsedGvec(a)))
        => (last.err # "" /\ last.ret.fields = <<>>)

\* C10 (as claimed): in every storage mode, wfc_r called with the G-vectors
\* gvectors returns and the coefficients readBandCoeff returns as overrides
\* gives the result of wfc_r called for the same indices without overrides.
C10_OverrideEquivalence ==
    LET a == last.args
    IN  (/\ last.op = "wfc_r" /\ InRange(a) /\ a.gvec.given /\ a.Cg.given
         /\ gvectors(a.ikpt, FALSE, TRUE).err = ""
         /\ a.gvec.val = gvectors(a.ikpt, FALSE, TRUE).val)
        => \A n \in BOOLEAN :
              a.Cg.val = readBandCoeff(pos, a.ispin, a.ikpt, a.iband, n).cg =>
                 LET d == wfc_r(pos, a.ispin, a.ikpt, a.iband, None, None, a.ngrid, a.rescale, n)
                 IN  last.err = d.err /\ last.ret.fields = d.ret

\* C11 (as claimed): a field wfc_r returns for coefficients read from the file
\* with normalization enabled, without overrides and without rescale, on any
\* valid target grid, has the sum over the grid points of |field|^2 equal to
\* 1 (the two spinor fields of spin-orbit storage together; gamma mode at the
\* Gamma point).
C11_UnitNorm ==
    LET a == last.args
        f == last.ret.fields
    IN  (/\ last.op = "wfc_r" /\ last.err = ""
         /\ ~a.gvec.given /\ ~a.Cg.given /\ ~a.rescale.given /\ a.norm
         /\ Len(UsedGvec(a)) >= 1
         /\ lgam => kvecs[a.ikpt] = <<0, 0, 0>>)
        => SumFn([h \in 1..Len(f) |-> SumAbs2(f[h]).num]) = SumAbs2(f[1]).den

\* the cutoff admits only the origin on the minimum grid at k-point k
OnlyOrigin(k) == GvecOf(ngrid, encut, Acell, kvecs[k], FALSE) = << <<0, 0, 0>> >>

\* C12: when the cutoff admits only the origin, gvectors returns exactly the
\* triple (0,0,0), and wfc_r with the coefficient vector [1.0], in full and in
\* gamma mode, places it at grid position (0,0,0) only and returns a field
\* that is uniform with the positive real value 1/sqrt(N) on the N points of
\* the target grid.
C12_OriginOnly ==
    LET a == last.args
    IN  /\ (/\ last.op = "gvectors" /\ ValidK(a) /\ OnlyOrigin(a.ikpt)
            /\ a.check_consistency => StoredCount(nplws[a.ikpt], lsoc) = 1)
              => (last.err = "" /\ last.ret.Gvec = << <<0, 0, 0>> >>)
        /\ (/\ last.op = "wfc_r" /\ InRange(a) /\ ~lsoc /\ OnlyOrigin(a.ikpt)
            /\ CheckGrid(a.ngrid) = "" /\ a.Cg.given /\ a.Cg.val = UnitCg
            /\ a.gvec.given => a.gvec.val = << <<0, 0, 0>> >>
            /\ ~a.gvec.given => nplws[a.ikpt] = 1)
              => /\ last.err = "" /\ Len(last.ret.fields) = 1
                 /\ LET f == last.ret.fields[1]
                        v == UniformSq(f)
                    IN  /\ DOMAIN f.phi_k = {<<0, 0, 0>>}
                        /\ f.phi_k[<<0, 0, 0>>].im = 0 /\ f.phi_k[<<0, 0, 0>>].re > 0
                        /\ f.s = UsedGrid(a)
                        /\ Uniform(f)
                        /\ v.num * Prod3(UsedGrid(a)) = v.den

C12_Witness ==
    /\ last.op = "wfc_r" /\ lgam /\ last.err = ""
    /\ OnlyOrigin(last.args.ikpt)
    /\ last.args.Cg.given /\ last.args.Cg.val = UnitCg
    /\ ~last.args.gvec.given
    /\ last.ret.fields[1].s = <<3, 3, 3>>
    /\ UniformSq(last.ret.fields[1]).den = 27 * UniformSq(last.ret.fields[1]).num

UnsupportedErrors ==
    {"ValueError: VASP5 WAVECAR format, not implemented yet",
     "ValueError: VASP5 WAVECAR format with double precision coefficients, not implemented yet",
     "ValueError: Invalid TAG values"}

\* C13: opening a file selects 8-byte single-precision complex coefficients
\* for tag 45200 and 16-byte double-precision ones for tag 45210, and fails
\* with an unsupported-format error for tags 53300, 53310 and every other
\* tag; on that failure only the first header record was read.
C13_PrecisionTag ==
    (last.op = "__init__" /\ ~(last.args.lsorbit /\ last.args.lgamma)) =>
        /\ wavecar.rtag = 45200 => (WFPrec = 8 /\ last.err \notin UnsupportedErrors)
        /\ wavecar.rtag = 45210 => (WFPrec = 16 /\ last.err \notin UnsupportedErrors)
        /\ wavecar.rtag \notin {45200, 45210} =>
              /\ last.err \in UnsupportedErrors
              /\ last.io = << <<"seek", 0>>, <<"read", 3>> >>
              /\ nkpts = 0 /\ nbands = 0 /\ nplws = <<>> /\ bands = <<>> /\ occs = <<>>
        /\ wavecar.rtag \in {45200, 45210} => Len(last.io) = 4 + 2 * wavecar.nspin * wavecar.nkpts

C13_Witness ==
    /\ last.op = "__init__" /\ wavecar.rtag = 53310
    /\ last.err = "ValueError: VASP5 WAVECAR format with double precision coefficients, not implemented yet"
    /\ Len(last.io) = 2

\* C20: for every spin s and k-point k the constructor's readWFBand seeks to
\* byte (2 + (s-1)K(B+1) + (k-1)(B+1) + 1 - 1) * recl, the record before band
\* 1's coefficients, and reads 4 + 3B values there; the handle keeps value 0
\* of the block of spin 1 as the plane-wave count, values 1..3 as the
\* k-vector, and for band b value 4+3(b-1) as the energy and value 4+3(b-1)+2
\* as the occupation of (s, k, b).
C20_BandTable ==
    (last.op = "__init__" /\ Len(last.io) > 4) =>
        LET f == wavecar
            K == f.nkpts
            B == f.nbands
        IN  \A s \in 1..f.nspin, k \in 1..K :
               LET n == (s - 1) * K + (k - 1)
                   block == BandTable(f, s, k)
               IN  /\ last.io[4 + 2 * n + 1]
                        = <<"seek", (2 + (s - 1) * K * (B + 1) + (k - 1) * (B + 1) + 1 - 1) * f.recl>>
                   /\ last.io[4 + 2 * n + 2] = <<"read", 4 + 3 * B>>
                   /\ Len(block) = 4 + 3 * B
                   /\ nplws[k] = BandTable(f, 1, k)[0 + 1] /\ nplws[k] = f.nplw[k]
                   /\ kvecs[k] = SubSeq(BandTable(f, 1, k), 1 + 1, 3 + 1) /\ kvecs[k] = FileKvec(k)
                   /\ \A b \in 1..B :
                         /\ bands[s][k][b] = block[4 + 3 * (b - 1) + 1]
                         /\ bands[s][k][b] = FileBand(s, k, b)
                         /\ occs[s][k][b] = block[4 + 3 * (b - 1) + 2 + 1]
                         /\ occs[s][k][b] = FileOcc(s, k, b)

C20_Witness ==
    /\ last.op = "__init__" /\ last.err = ""
    /\ nspin = 2 /\ nkpts = 2 /\ nbands = 2
    /\ occs[2][2][2] = FileOcc(2, 2, 2) /\ bands[2][1][2] = FileBand(2, 1, 2)
    /\ Len(last.io) = 12

\* the coefficients stored in the record of (ispin, ikpt, iband)
RecordCoeffs(a) ==
    [i \in 1..nplws[a.ikpt] |-> FileCoeff(RecOf(a.ispin, a.ikpt, a.iband, nkpts, nbands) * recl, i)]

Returned(t) == thr.th[t].pc \in {"release", "done"}

\* C14: when the two threads hold one lock over each seek and read, or read
\* through a handle each, every readBandCoeff call returns the coefficients of
\* the record it asked for.  (On a shared handle without a lock a call can
\* return another record's coefficients: C14_Witness.)
C14_SafeReads ==
    \A t \in DOMAIN thr.th :
        (thr.mode \in {"locked", "own"} /\ Returned(t))
            => thr.th[t].cg = RecordCoeffs(thr.th[t].args)

\* two threads on one handle without a lock: a call has returned, and what it
\* returned is not the record it asked for
C14_Witness ==
    \E t \in DOMAIN thr.th :
        /\ thr.mode = "shared"
        /\ Returned(t)
        /\ thr.th[t].cg # RecordCoeffs(thr.th[t].args)

\* what the constructor read from the file into the handle
AsOpened ==
    /\ recl = wavecar.recl /\ nspin = wavecar.nspin /\ rtag = wavecar.rtag
    /\ nkpts = wavecar.nkpts /\ nbands = wavecar.nbands
    /\ encut = wavecar.encut /\ Acell = wavecar.cell
    /\ ngrid = MinGrid(wavecar.encut, wavecar.cell)
    /\ nplws = wavecar.nplw

\* C15: no call of gvectors, readBandCoeff, whereRec, checkIndex or wfc_r
\* changes the record length, spin count, precision tag, k-point count, band
\* count, cutoff, lattice, minimum grid, plane-wave counts, k-vectors, band
\* energies or occupations of the handle.
C15_Frame == [][hvars' = hvars]_vars

\* wfc_r has run on a grid larger than the minimum one, readBandCoeff inside it
\* has read the file, and the handle still holds what the constructor read
C15_Witness ==
    /\ last.op = "wfc_r" /\ last.err = ""
    /\ last.args.ngrid.given /\ last.args.ngrid.val # ngrid
    /\ last.io # <<>>
    /\ AsOpened

\* elf, lines 553-558 (Python 2: / on integers is floor division)
elfFreq(n) == [i \in 0..(n - 1) |-> IF i < (n \div 2) + 1 THEN i ELSE i - n]

\* elf, lines 544-551: the grid elf works on by default
elfGrid == [a \in 1..3 |-> ngrid[a] * 2]

\* paw.gvectors, lines 28-33 (// is floor division)
pawFreq(n) == [i \in 0..(n - 1) |-> IF i < (n \div 2) + 1 THEN i ELSE i - n]

\* the frequency the claim gives index i on an axis of n points
Centered(i, n) == IF i < (n \div 2) + 1 THEN i ELSE i - n

\* the values of f are consecutive integers, one per index, and 0 is among them
Consecutive(f) ==
    LET vals == {f[i] : i \in DOMAIN f}
    IN  /\ 0 \in vals
        /\ Cardinality(vals) = Cardinality(DOMAIN f)
        /\ \A v \in vals, w \in vals : \A u \in v..w : u \in vals

\* the grid wfc_r worked on in the last call: lines 318-321
TargetGrid == UsedGrid(last.args)

\* C16: at each site that centers frequencies (gvectors, the gamma completion
\* loop of wfc_r, elf, paw.gvectors) index i of an axis of n points gets
\* frequency i when i < floor(n/2) + 1 and i - n otherwise, so the sites agree
\* and the n frequencies of an axis are consecutive integers containing 0.
C16_Centering ==
    /\ \A a \in 1..3 :
          /\ \A i \in 0..(ngrid[a] - 1) :
                /\ freq(ngrid[a])[i] = Centered(i, ngrid[a])
                /\ pawFreq(ngrid[a])[i] = Centered(i, ngrid[a])
          /\ \A i \in 0..(elfGrid[a] - 1) : elfFreq(elfGrid[a])[i] = Centered(i, elfGrid[a])
          /\ Consecutive(freq(ngrid[a]))
          /\ Consecutive(pawFreq(ngrid[a]))
          /\ Consecutive(elfFreq(elfGrid[a]))
    /\ (last.op = "wfc_r" /\ last.err = "" /\ lgam) =>
          \A ii \in 0..(TargetGrid[1] - 1), jj \in 0..(TargetGrid[2] - 1) :
              /\ FillFx(ii, jj, TargetGrid) = Centered(ii, TargetGrid[1])
              /\ FillFy(ii, jj, TargetGrid) = Centered(jj, TargetGrid[2])

----------------------------------------------------------------------------
\* paw.gvectors, src/paw.py lines 9-75, called with the cell, cutoff and
\* k-vector of an open handle.

\* lines 42-50: the filter of gamma_half == 'z'
pawHalfZ(t) ==
    (t[3] > 0) \/ (t[3] = 0 /\ t[2] > 0) \/ (t[3] = 0 /\ t[2] = 0 /\ t[1] >= 0)

\* lines 52-60: the filter of the other branch (gamma_half 'x')
pawHalfX(t) ==
    (t[1] > 0) \/ (t[1] = 0 /\ t[2] > 0) \/ (t[1] = 0 /\ t[2] = 0 /\ t[3] >= 0)

\* the comprehension loops (kk outermost, ii innermost) over pawFreq
pawCand(g) ==
    [n \in 1..Prod3(g) |->
        LET t == n - 1
        IN  <<pawFreq(g[1])[t % g[1]], pawFreq(g[2])[(t \div g[1]) % g[2]],
              pawFreq(g[3])[t \div (g[1] * g[2])]>>]

\* lines 38-66
pawKgrid(g, gam, half) ==
    IF ~gam THEN pawCand(g)
    ELSE IF half = "z" THEN SelectSeq(pawCand(g), pawHalfZ)
    ELSE SelectSeq(pawCand(g), pawHalfX)

\* lines 18-24 and 36-75: the body of the function
pawBody(cell, cut, kv, gam, half) ==
    LET Keep(t) == KENERGY4(t, kv, cell) < 4 * cut
    IN  SelectSeq(pawKgrid(MinGrid(cut, cell), gam, half), Keep)

\* lines 9-11: the parameter list lacks the comma after ngrid=None, so the
\* module does not compile; line 36 reads force_Gamma, a name bound nowhere
\* (the parameter is force_gamma)
pawCompiles == FALSE
pawNameBound == FALSE

pawGvectors(cell, cut, kv, lg, half, force_gamma) ==
    IF ~pawCompiles THEN [err |-> "SyntaxError: invalid syntax", val |-> <<>>]
    ELSE IF ~pawNameBound
    THEN [err |-> "NameError: global name 'force_Gamma' is not defined", val |-> <<>>]
    ELSE [err |-> "", val |-> pawBody(cell, cut, kv, lg \/ force_gamma, half)]

PawGvectors ==
    /\ Idle
    /\ \E k \in 1..nkpts, lg \in BOOLEAN, half \in {"x", "z"}, force \in BOOLEAN :
         \E r \in {pawGvectors(Acell, encut, kvecs[k], lg, half, force)} :
             last' = [op |-> "paw.gvectors",
                      args |-> [ikpt |-> k, lgam |-> lg, gamma_half |-> half,
                                force_gamma |-> force],
                      err |-> r.err, ret |-> [Gvec |-> r.val], io |-> <<>>]
    /\ UNCHANGED <<wavecar, hvars, pos, thr>>

NextP == Gvectors \/ PawGvectors \/ Resume

SpecP == InitG /\ [][NextP]_vars

----------------------------------------------------------------------------
\* the candidate triples of grid g in z-major, y-middle, x-minor order
ZMajor(g) ==
    [n \in 1..Prod3(g) |->
        LET t == n - 1
        IN  <<Centered(t % g[1], g[1]), Centered((t \div g[1]) % g[2], g[2]),
              Centered(t \div (g[1] * g[2]), g[3])>>]

HalfX(t) == (t[1] > 0) \/ (t[1] = 0 /\ t[2] > 0) \/ (t[1] = 0 /\ t[2] = 0 /\ t[3] >= 0)
HalfZ(t) == (t[3] > 0) \/ (t[3] = 0 /\ t[2] > 0) \/ (t[3] = 0 /\ t[2] = 0 /\ t[1] >= 0)

\* the triples of grid g below the cutoff that the half keeps, in z-major order
KeptHalf(g, kv, half) ==
    LET Keep(t) == (IF half = "x" THEN HalfX(t) ELSE HalfZ(t))
                   /\ KENERGY4(t, kv, Acell) < 4 * encut
    IN  SelectSeq(ZMajor(g), Keep)

\* C17: gamma-half-x keeps the triples with fx > 0, or fx = 0 and fy > 0, or
\* fx = fy = 0 and fz >= 0; gamma-half-z keeps those with fz > 0, or fz = 0 and
\* fy > 0, or fz = fy = 0 and fx >= 0; the kept triples stay in z-major,
\* y-middle, x-minor order (vaspwfc.gvectors in gamma mode: half z;
\* paw.gvectors: the half asked for).
C17_GammaHalves ==
    /\ (last.op = "gvectors" /\ last.err = "" /\ (lgam \/ last.args.force_Gamma))
          => last.ret.Gvec = KeptHalf(ngrid, kvecs[last.args.ikpt], "z")
    /\ (last.op = "paw.gvectors" /\ (last.args.lgam \/ last.args.force_gamma))
          => /\ last.err = ""
             /\ last.ret.Gvec = KeptHalf(ngrid, kvecs[last.args.ikpt], last.args.gamma_half)

\* the reciprocal grid of the last gamma-mode call right after line 370: the
\* coefficients at the wrapped positions of the G-vectors, zero elsewhere
Placed ==
    LET sh == PhiShape(TargetGrid, TRUE)
    IN  Place(zeros(sh), sh, WrapG(UsedGvec(last.args), TargetGrid), UsedCoeff(last.args)).phi

\* the positions line 370 wrote
Populated == {WrapG(UsedGvec(last.args), TargetGrid)[i] : i \in 1..Len(UsedGvec(last.args))}

\* two amplitudes are the same number up to the scaling of lines 381-382
SameValue(a, b) == (IsZero(a) /\ IsZero(b)) \/ (a.re = b.re /\ a.im = b.im /\ a.nrm = b.nrm)

\* C18: after the conjugate-reflection step of a gamma-mode wfc_r, on any
\* target grid, a populated position (i, j, 0) still holds its coefficient and
\* an unpopulated one holds the conjugate of position (-i mod nx, -j mod ny, 0);
\* no stored coefficient is overwritten or lost.
C18_Reflection ==
    (last.op = "wfc_r" /\ last.err = "" /\ lgam) =>
        \A i \in 0..(TargetGrid[1] - 1), j \in 0..(TargetGrid[2] - 1) :
            LET got == At(last.ret.fields[1].phi_k, <<i, j, 0>>)
                mirror == <<NegIdx(i, TargetGrid[1]), NegIdx(j, TargetGrid[2]), 0>>
            IN  IF <<i, j, 0>> \in Populated
                THEN SameValue(got, Placed[<<i, j, 0>>])
                ELSE SameValue(got, conjugate(Placed[mirror]))

\* amplitude a is amplitude b times sqrt(2)^k
TimesSqrt2(a, b, k) ==
    IF IsZero(b) THEN IsZero(a)
    ELSE a.re = b.re /\ a.im = b.im /\ a.nrm = b.nrm /\ a.s2 = b.s2 + k

\* the reciprocal grid of the last gamma-mode call after the completion loop
Filled == GammaFill(Placed, TargetGrid, 0)

Origin == <<0, 0, 0>>

\* every amplitude other than the origin is the completed grid's, divided by sqrt(2)
OthersHalved ==
    LET filled == Filled
    IN  \A c \in DOMAIN filled \ {Origin} :
            TimesSqrt2(At(last.ret.fields[1].phi_k, c), filled[c], 0 - 1)

GammaCall == last.op = "wfc_r" /\ last.err = "" /\ lgam

\* C19 as stated: in gamma mode, before the complex-to-real transform, wfc_r
\* divides every amplitude other than the origin by sqrt(2), and the origin
\* amplitude is sqrt(2) times the placed coefficient.
C19_AsStated ==
    GammaCall =>
        /\ OthersHalved
        /\ TimesSqrt2(At(last.ret.fields[1].phi_k, Origin), Placed[Origin], 1)

\* C19, amended: in gamma mode, before the complex-to-real transform, wfc_r
\* divides every amplitude other than the origin by sqrt(2), and the origin
\* amplitude is the placed coefficient itself (divided by sqrt(2), then
\* multiplied by sqrt(2)).
C19_OriginKept ==
    GammaCall =>
        /\ OthersHalved
        /\ TimesSqrt2(At(last.ret.fields[1].phi_k, Origin), Placed[Origin], 0)

\* a gamma-mode call whose grid holds a coefficient at the origin and one elsewhere
C19_Witness ==
    /\ GammaCall
    /\ ~IsZero(Placed[Origin])
    /\ \E c \in DOMAIN Placed : c # Origin /\ ~IsZero(Placed[c])

\* the valid (spin, k-point, band) triples of the handle
ValidTriples == (1..nspin) \X (1..nkpts) \X (1..nbands)

\* the records readWFBand reads the band tables from (line 176)
TableRecs ==
    {BandTableOffset([nkpts |-> nkpts, nbands |-> nbands, recl |-> recl], s, k) \div recl :
        s \in 1..nspin, k \in 1..nkpts}

\* the records whereRec gives the coefficients of the valid triples
CoeffRecs == {RecOf(t[1], t[2], t[3], nkpts, nbands) : t \in ValidTriples}

\* C21: the record layout is a bijection: the S*K band-table records and the
\* S*K*B coefficient records are pairwise distinct, none is header record 0 or
\* 1, together they are exactly the records 2 .. 1 + S*K*(B+1), and two
\* different valid triples never map to the same record.
C21_Layout ==
    /\ Cardinality(TableRecs) = nspin * nkpts
    /\ Cardinality(CoeffRecs) = nspin * nkpts * nbands
    /\ TableRecs \cap CoeffRecs = {}
    /\ TableRecs \cup CoeffRecs = 2..(1 + nspin * nkpts * (nbands + 1))
    /\ \A t \in ValidTriples, u \in ValidTriples :
          RecOf(t[1], t[2], t[3], nkpts, nbands) = RecOf(u[1], u[2], u[3], nkpts, nbands)
              => t = u
    /\ (last.op = "whereRec" /\ last.err = "") =>
          /\ last.ret.rec \in CoeffRecs \ TableRecs
          /\ \A t \in ValidTriples :
                RecOf(t[1], t[2], t[3], nkpts, nbands) = last.ret.rec
                    => t = <<last.args.ispin, last.args.ikpt, last.args.iband>>

\* whereRec has returned the last record of a file of two spins, two k-points
\* and two bands
C21_Witness ==
    /\ last.op = "whereRec" /\ last.err = ""
    /\ nspin = 2 /\ nkpts = 2 /\ nbands = 2
    /\ last.args = [ispin |-> 2, ikpt |-> 2, iband |-> 2]
    /\ last.ret.rec = 1 + nspin * nkpts * (nbands + 1)

\* the G-vector array of the call is one gvectors produced: the default of
\* line 338, or an override that is the output of gvectors for the k-point
FromGvectors(a) ==
    \/ ~a.gvec.given
    \/ \E f \in BOOLEAN : a.gvec.val = gvectors(a.ikpt, f, FALSE).val

\* the triples gv, wrapped onto grid g, are indices of the reciprocal grid
\* allocated for g and no two of them are the same index
WrapsInside(gv, g) ==
    LET w == [i \in 1..Len(gv) |-> <<gv[i][1] % g[1], gv[i][2] % g[2], gv[i][3] % g[3]>>]
    IN  /\ \A i \in 1..Len(gv) :
              /\ \A a \in 1..3 : 0 <= w[i][a] /\ w[i][a] < g[a]
              /\ lgam => w[i][3] < (g[3] \div 2) + 1
        /\ \A i \in 1..Len(gv), j \in 1..Len(gv) : w[i] = w[j] => i = j

\* target grids at least the minimum grid on every axis
GridsAbove == {[a \in 1..3 |-> ngrid[a] + d[a]] : d \in {0, MaxPad} \X {0, MaxPad} \X {0, MaxPad}}

OutOfBounds == "IndexError: index is out of bounds"

\* C22: on every target grid that is at least the minimum grid on every axis,
\* each G-vector gvectors produces wraps (component modulo grid size) to an
\* index inside the allocated reciprocal grid, in gamma mode with third index
\* below floor(nz/2) + 1, and two G-vectors of a k-point never wrap to the same
\* position: no coefficient is written out of bounds or over another.
C22_WrapInside ==
    /\ (last.op = "gvectors" /\ last.err = "") =>
          \A g \in GridsAbove : WrapsInside(last.ret.Gvec, g)
    /\ (/\ last.op = "wfc_r" /\ InRange(last.args)
        /\ \A a \in 1..3 : TargetGrid[a] >= ngrid[a]
        /\ FromGvectors(last.args)) =>
          /\ WrapsInside(UsedGvec(last.args), TargetGrid)
          /\ last.err # OutOfBounds

\* wfc_r has placed, on a grid larger than the minimum one, G-vectors of
\* gvectors of which one has a negative component
C22_Witness ==
    /\ last.op = "wfc_r" /\ last.err = ""
    /\ FromGvectors(last.args)
    /\ last.args.ngrid.given /\ TargetGrid # ngrid
    /\ \E i \in 1..Len(UsedGvec(last.args)) :
          \E a \in 1..3 : UsedGvec(last.args)[i][a] < 0

\* C23: wfc_r leaves a caller-supplied G-vector override unchanged: after the
\* call the caller's array holds the signed frequency triples it held before.
C23_OverrideUnchanged ==
    (last.op = "wfc_r" /\ last.args.gvec.given) => last.ret.gvecOut = last.args.gvec

----------------------------------------------------------------------------
\* The two readers of the constructor called again on the open handle: they
\* move the stream and store what they read in the attributes once more.

\* lines 121-130: where readWFHeader leaves the stream
HeaderEnd(h) == IF h.err # "" THEN FloatSize * 3 ELSE h.recl + FloatSize * 12

ReadWFHeader ==
    /\ Idle
    /\ \E r \in {readWFHeader(wavecar)} :
          /\ recl' = r.recl /\ nspin' = r.nspin /\ rtag' = r.rtag /\ WFPrec' = r.WFPrec
          /\ nkpts' = r.nkpts /\ nbands' = r.nbands /\ encut' = r.encut
          /\ Acell' = r.Acell /\ ngrid' = r.ngrid
          /\ pos' = HeaderEnd(r)
          /\ last' = [op |-> "readWFHeader", args |-> Nothing, err |-> r.err,
                      ret |-> Nothing, io |-> r.io]
    /\ UNCHANGED <<wavecar, lsoc, lgam, nplws, kvecs, bands, occs, thr>>

ReadWFBand ==
    /\ Idle
    /\ \E r \in {readWFBand(wavecar, [nspin |-> nspin, nkpts |-> nkpts,
                                      nbands |-> nbands, recl |-> recl])} :
          /\ nplws' = r.nplws /\ kvecs' = r.kvecs /\ bands' = r.bands /\ occs' = r.occs
          /\ pos' = r.pos
          /\ last' = [op |-> "readWFBand", args |-> Nothing, err |-> "",
                      ret |-> Nothing, io |-> r.io]
    /\ UNCHANGED <<wavecar, lsoc, lgam, recl, nspin, rtag, WFPrec, nkpts, nbands,
                   encut, Acell, ngrid, thr>>

NextS == ReadBandCoeff \/ Gvectors \/ Wfc_r \/ ReadWFHeader \/ ReadWFBand \/ Resume

SpecS == Init /\ [][NextS]_vars

\* what the file holds for the triple a, as readBandCoeff returns it
StoredCoeffs(a, norm) == IF norm THEN Normalize(RecordCoeffs(a)) ELSE RecordCoeffs(a)

FirstRecord == [ispin |-> 1, ikpt |-> 1, iband |-> 1]

\* C24: with one caller, the result of readBandCoeff(s, k, b), and of wfc_r
\* for the same arguments, depends on the file and the arguments only, not on
\* where earlier readBandCoeff, gvectors, wfc_r, readWFBand or readWFHeader
\* calls left the stream: a returned vector is the one stored for the triple,
\* a wfc_r result is the one the call gives from the start of the stream, and
\* the next read from where the stream now stands returns the stored vector.
C24_PositionIndependent ==
    /\ (last.op = "readBandCoeff" /\ last.err = "") =>
          last.ret.cg = StoredCoeffs(last.args, last.args.norm)
    /\ last.op = "wfc_r" =>
          \E r \in {wfc_r(0, last.args.ispin, last.args.ikpt, last.args.iband, last.args.gvec,
                          last.args.Cg, last.args.ngrid, last.args.rescale, last.args.norm)} :
              /\ last.err = r.err
              /\ last.ret.fields = r.ret
    /\ \A t \in ValidTriples :
          \E r \in {readBandCoeff(pos, t[1], t[2], t[3], FALSE)} :
              /\ r.err = ""
              /\ r.cg = RecordCoeffs([ispin |-> t[1], ikpt |-> t[2], iband |-> t[3]])

\* a record other than the first has just been read, the stream stands past
\* it, and a read of the first record from there returns the first record's
\* coefficients, which are not the ones just returned
C24_Witness ==
    /\ last.op = "readBandCoeff" /\ last.err = ""
    /\ last.args.ikpt = 2
    /\ pos = last.io[1][2] + nplws[2] * WFPrec
    /\ readBandCoeff(pos, 1, 1, 1, FALSE).cg = RecordCoeffs(FirstRecord)
    /\ RecordCoeffs(FirstRecord) # last.ret.cg

====
